---- MODULE Spec2Model ----
(***************************************************************************)
(* L-system plant generator (Plant component, generatePlantGeometry).      *)
(*                                                                         *)
(* Two phases, as in the source: the grammar expansion (the rewrite loop   *)
(* over SPATIAL_TREE_RULES) and the turtle interpreter (the switch over    *)
(* the characters of the expanded string, with its TurtleStack).           *)
(*                                                                         *)
(* Numbers.  Scalars are exact scaled integers:                            *)
(*   depth   in tenths            (0.1 = 1, 0.2 = 2)                       *)
(*   length in units of 10^-10    (0.08 = 800000000)                       *)
(*   radius in units of 10^-11    (0.02 = 2000000000)                      *)
(*   Math.random() in quarters    (0, 1/4, 1/2, 3/4)                       *)
(*   variation factors in hundredths (0.1 = 10, 0.05 = 5)                  *)
(* THREE.Vector3 values are terms over the three.js operations that built  *)
(* them (add, multiplyScalar, applyAxisAngle, normalize), kept in a table  *)
(* of nodes; two vectors with the same node are the same vector.           *)
(* THREE.Vector3 / THREE.Color objects live in a heap of cells, so that    *)
(* clone() (a new cell) and sharing a reference (the same cell) differ.    *)
(***************************************************************************)
EXTENDS Integers, Sequences, FiniteSets, TLC

VARIABLES
  cfg,            \* SPATIAL_TREE_RULES: axiom, rules, iterations, variations
  i,              \* generation counter of the rewrite loop
  currentString,  \* the string being rewritten, then the string traversed
  pc,             \* "expand" | "interpret" | "done" | "stack" (TurtleStack alone)
  charIndex,      \* index of the next character of the traversal
  turtle,         \* the live TurtleState (vector and color fields are cells)
  stack,          \* TurtleStack.stack
  restored,       \* what the last stack.pop() returned (Null: null)
  heap,           \* cell -> content of every reachable Vector3 / Color object
  vals,           \* table of vector terms; a vector cell holds an index into it
  branches,       \* the meshes pushed so far
  lastCall,       \* TurtleStack alone: what its client did last
  atPush,         \* TurtleStack alone: the argument and the stack at the last push
  run,            \* which call of generatePlantGeometry this is (1 or 2)
  firstRun,       \* the branches the first call returned, as values
  harness         \* how Math.random is stubbed by the caller (see Draws)

expandVars == <<cfg, i, currentString, pc>>
turtleVars == <<charIndex, turtle, stack, restored, heap, vals, branches,
                lastCall, atPush>>
runVars == <<run, firstRun, harness>>
vars == <<cfg, i, currentString, pc, charIndex, turtle, stack, restored, heap, vals,
          branches, lastCall, atPush, run, firstRun, harness>>

----------------------------------------------------------------------------
(* Bounds of the checked instances *)

MaxAxiom == 2
MaxIter == 2
MaxLen == 4
MaxStack == 2
MaxMutations == 2

(* The symbols of the configured grammar *)
Symbols == {"F", "X", "+", "-", "[", "]"}

----------------------------------------------------------------------------
(* Grammar expansion: generatePlantGeometry, lines 94-105 *)

\* a test for the key alone: the empty replacement string counts as a rule
RulePresent(rules, c) == c \in DOMAIN rules

\* the truthiness test of `if (SPATIAL_TREE_RULES.rules[char])`: a missing
\* key is undefined (falsy) and so is the empty replacement string ''
RuleTruthy(rules, c) == c \in DOMAIN rules /\ rules[c] # ""

\* the character at place n of string s (places count from 1)
CharAt(s, n) == SubSeq(s, n, n)

\* one pass of the inner loop body: what is appended to newString for char
RewriteChar(rules, c) == IF RuleTruthy(rules, c) THEN rules[c] ELSE c

RECURSIVE RewriteRange(_, _, _, _)
\* what the inner for-of loop appends for the characters lo..hi, in order
\* (the range is halved to keep the evaluation shallow)
RewriteRange(rules, s, lo, hi) ==
  IF lo > hi THEN ""
  ELSE IF lo = hi THEN RewriteChar(rules, CharAt(s, lo))
  ELSE LET mid == (lo + hi) \div 2
       IN RewriteRange(rules, s, lo, mid) \o RewriteRange(rules, s, mid + 1, hi)

\* newString after the inner loop
Rewrite(rules, s) == RewriteRange(rules, s, 1, Len(s))

RECURSIVE Expand(_, _, _)
\* the whole outer loop: n generations from s
Expand(rules, s, n) == IF n = 0 THEN s ELSE Expand(rules, Rewrite(rules, s), n - 1)

----------------------------------------------------------------------------
(* SPATIAL_TREE_RULES, lines 6-17 *)

ITERATIONS == 4
LENGTH_VARIATION == 10
ANGLE_VARIATION == 5
InitLength == 800000000
InitRadius == 2000000000
TIME == 0

TREE_AXIOM == "X"

\* the X rule with the ']' after its first X left out
TREE_RULES_Unclosed ==
  [c \in {"X", "F"} |->
     IF c = "F" THEN "FF" ELSE "F+[[X-X]-F[-FX]+X+F[+X]-X+F[+X]+X"]

TREE_RULES ==
  [c \in {"X", "F"} |->
     IF c = "F" THEN "FF" ELSE "F+[[X]-X]-F[-FX]+X+F[+X]-X+F[+X]+X"]

\* the configured grammar, run for n generations
SPATIAL_TREE_RULES(n) ==
  [axiom |-> TREE_AXIOM, rules |-> TREE_RULES, iterations |-> n,
   lengthVariation |-> LENGTH_VARIATION, angleVariation |-> ANGLE_VARIATION]

----------------------------------------------------------------------------
(* Math.random().  A draw is a number of quarters, 0..3 (0, 1/4, 1/2, 3/4). *)
(* The caller may stub Math.random: to a constant, or so that the three     *)
(* draws of a rotation axis, or of a '[' perturbation, always come out the  *)
(* same.                                                                    *)

ConstDraw == 3

NoStub == [constantRandom |-> FALSE, fixedAxis |-> FALSE, fixedPerturb |-> FALSE]

\* the draw of case 'F'
Draws == IF harness.constantRandom THEN {ConstDraw} ELSE {0, 3}

\* the four draws of case '+' / '-': the angle variation, then the axis x, y, z
TurnDraws ==
  IF harness.constantRandom THEN {<<ConstDraw, ConstDraw, ConstDraw, ConstDraw>>}
  ELSE IF harness.fixedAxis THEN {<<0, 3, 2, 2>>, <<3, 3, 2, 2>>}
  ELSE {<<0, 3, 2, 2>>, <<3, 0, 3, 1>>}

\* the three draws of case '[': the perturbation x, y, z
PerturbDraws ==
  IF harness.constantRandom THEN {<<ConstDraw, ConstDraw, ConstDraw>>}
  ELSE IF harness.fixedPerturb THEN {<<0, 2, 3>>}
  ELSE {<<0, 2, 3>>, <<3, 1, 0>>}

----------------------------------------------------------------------------
(* Heap of Vector3 / Color objects and the table of vector terms *)

Null == [null |-> TRUE]

\* the cell a `new` gets: the first one no live object occupies
Fresh(h) == CHOOSE a \in 1..(Cardinality(DOMAIN h) + 1) :
              /\ a \notin DOMAIN h
              /\ \A b \in 1..(a - 1) : b \in DOMAIN h

\* h with cell a holding content v (a new cell, or an object changed in place)
Store(h, a, v) == [c \in DOMAIN h \cup {a} |-> IF c = a THEN v ELSE h[c]]

\* the cells a TurtleState refers to
CellsOf(state) ==
  IF state = Null THEN {} ELSE {state.position, state.direction, state.color}

\* the cells the program can still reach
Reachable(t, stk, res) ==
  CellsOf(t) \cup CellsOf(res) \cup UNION {CellsOf(stk[n]) : n \in DOMAIN stk}

\* the garbage collector: unreachable objects are gone
Collect(h, t, stk, res) == [c \in DOMAIN h \cap Reachable(t, stk, res) |-> h[c]]

\* vector terms: the index a new term gets, and the table with it
NewVal(tbl) == Len(tbl) + 1

\* new THREE.Vector3(x, y, z)
Vec(x, y, z) == <<"vec", x, y, z>>

\* p.add(d.clone().multiplyScalar(len * mult / 400)): p and d are term indices
AddScaled(p, d, len, mult) == <<"addScaled", p, d, len, mult>>

\* d.applyAxisAngle(normalize(axis / 4), angle)
ApplyAxisAngle(d, axis, angle) ==
  <<"applyAxisAngle", d, axis[1], axis[2], axis[3], angle[1], angle[2]>>

\* d.add(v).normalize(), v in fortieths
AddNormalize(d, v) == <<"addNormalize", d, v[1], v[2], v[3]>>

\* the term index a vector cell holds
ValOf(h, a) == h[a][2]

\* a vector cell's content
VecCell(id) == <<"v", id>>

\* x * 0.7 and x * 0.8 (exact while x is a multiple of 10)
Times07(x) == (x \div 10) * 7
Times08(x) == (x \div 10) * 8

----------------------------------------------------------------------------
(* class TurtleStack, lines 29-57 *)

\* v.clone(): a new object with the content of cell a
Clone(h, a) == Store(h, Fresh(h), h[a])

\* the object literal that keeps the caller's own vectors (no clone)
ShareState(h, state) == [heap |-> h, state |-> state]

\* the copy made of state in heap h: each vector and color cloned in turn
CopyState(h, state) ==
  LET p == Fresh(h)
      h1 == Clone(h, state.position)
      d == Fresh(h1)
      h2 == Clone(h1, state.direction)
      c == Fresh(h2)
      h3 == Clone(h2, state.color)
  IN [heap |-> h3,
      state |-> [position |-> p, direction |-> d, length |-> state.length,
                 angle |-> state.angle, color |-> c, radius |-> state.radius,
                 depth |-> state.depth]]

\* push(state), lines 32-42
Push(h, stk, state) ==
  LET copy == CopyState(h, state)
  IN [heap |-> copy.heap, stack |-> Append(stk, copy.state)]

\* stack.shift() in place of stack.pop(): the oldest entry is taken
Shift(h, stk) ==
  IF stk = << >> THEN [heap |-> h, stack |-> stk, state |-> Null]
  ELSE LET copy == CopyState(h, stk[1])
       IN [heap |-> copy.heap, stack |-> Tail(stk), state |-> copy.state]

\* pop(), lines 44-56
Pop(h, stk) ==
  IF stk = << >> THEN [heap |-> h, stack |-> stk, state |-> Null]
  ELSE LET copy == CopyState(h, stk[Len(stk)])
       IN [heap |-> copy.heap, stack |-> SubSeq(stk, 1, Len(stk) - 1),
           state |-> copy.state]

----------------------------------------------------------------------------
(* getPlantColor, lines 59-77 *)

\* new THREE.Color(hex)
Hex(h) == <<"hex", h>>

\* color.lerpColors(a, b, num / den), then offsetHSL by sin(time*0.1 + depth)*0.05
Lerp(a, b, num, den, time, depth) == <<"lerp", a, b, num, den, time, depth>>

\* t = Math.min(depth / 5, 1), in fiftieths (depth is in tenths)
ColorT(depth) == IF depth < 50 THEN depth ELSE 50

GetPlantColor(depth, time) ==
  LET t == ColorT(depth)
  IN IF t < 15
     THEN Lerp("8B4513", "CD853F", t, 15, time, depth)
     ELSE Lerp("CD853F", "D2691E", t - 15, 35, time, depth)

----------------------------------------------------------------------------
(* generatePlantGeometry: the initial turtle, lines 80-92 *)

InitVals == <<Vec(0, 0, 0), Vec(0, 1, 0)>>

InitHeap == [c \in {1, 2, 3} |-> IF c = 3 THEN Hex("8B4513") ELSE VecCell(c)]

InitTurtle ==
  [position |-> 1, direction |-> 2, length |-> InitLength, angle |-> <<1, 0>>,
   color |-> 3, radius |-> InitRadius, depth |-> 0]

----------------------------------------------------------------------------
(* generatePlantGeometry: the traversal, lines 107-198 *)

\* the character the loop is at
AtChar(c) ==
  /\ pc = "interpret"
  /\ charIndex <= Len(currentString)
  /\ CharAt(currentString, charIndex) = c

\* what every case leaves alone
TraversalFrame == UNCHANGED <<cfg, i, currentString, pc, runVars>>

\* the multiplier with the configured 0.1 written in place of the field
LengthVariationConfigured(r) == 400 + (r - 2) * LENGTH_VARIATION

\* 1 + (Math.random() - 0.5) * lengthVariation, in 1/400 (line 112)
LengthVariationOf(r) == 400 + (r - 2) * cfg.lengthVariation

\* (Math.random() - 0.5) * angleVariation, in 1/400 rad (lines 147, 161)
AngleVariationOf(r) == (r - 2) * cfg.angleVariation

\* turtle.angle + angleVariation; an angle is <<sixths of pi, 1/400 rad>>
ActualAngle(angle, r) == <<angle[1], angle[2] + AngleVariationOf(r)>>

Negated(angle) == <<0 - angle[1], 0 - angle[2]>>

\* (Math.random() - 0.5) * 0.3 for each component, in fortieths (lines 180-184)
SpatialVariation(v) == <<3 * (v[1] - 2), 3 * (v[2] - 2), 3 * (v[3] - 2)>>

\* axis.crossVectors(up, direction).normalize(), lines 130-132: up x d is the
\* zero vector when d is up itself, and Vector3.normalize leaves the zero
\* vector as it is (it divides by length() || 1); there is no other branch in
\* the code.  A direction term is up itself only when nothing turned it.
NormalizedCrossUp(d) == IF vals[d] = Vec(0, 1, 0) THEN Vec(0, 0, 0) ELSE <<"crossUp", d>>

\* branch.quaternion.setFromAxisAngle(axis, Math.acos(up.dot(direction))),
\* lines 133-134: the axis, and the direction the angle is taken to
SetFromAxisAngle(d) == <<NormalizedCrossUp(d), d>>

\* the mesh left at startPos, without the half-length offset of line 128
MeshAtStart(p, d, len, mult, radius, color) ==
  [position |-> <<p, d, 0, mult>>,
   quaternion |-> SetFromAxisAngle(d),
   height |-> <<len, mult>>,
   radiusTop |-> Times08(radius),
   radiusBottom |-> radius,
   color |-> color]

\* the cylinder built with turtle.length in place of actualLength
MeshUnvaried(p, d, len, mult, radius, color) ==
  [position |-> <<p, d, len, mult>>,
   quaternion |-> SetFromAxisAngle(d),
   height |-> <<len, 400>>,
   radiusTop |-> Times08(radius),
   radiusBottom |-> radius,
   color |-> color]

\* the mesh of lines 117-141: a cylinder of the given height, centred half way
\* along direction d from startPos p, turned from up onto d
Mesh(p, d, len, mult, radius, color) ==
  [position |-> <<p, d, len, mult>>,
   quaternion |-> SetFromAxisAngle(d),
   height |-> <<len, mult>>,
   radiusTop |-> Times08(radius),
   radiusBottom |-> radius,
   color |-> color]

\* one material shared by every mesh: its color is that of the last branch
PushRecolored(bs, b) ==
  Append([n \in DOMAIN bs |-> [bs[n] EXCEPT !.color = b.color]], b)

\* branches[branches.length - 1] = branch: the last mesh is overwritten
PushOver(bs, b) == IF bs = << >> THEN <<b>> ELSE [bs EXCEPT ![Len(bs)] = b]

\* branches.push(branch), line 143
PushBranch(bs, b) == Append(bs, b)

\* case 'F', lines 109-144
CaseF(r) ==
  /\ AtChar("F")
  /\ LET p == ValOf(heap, turtle.position)
         d == ValOf(heap, turtle.direction)
         mult == LengthVariationOf(r)
         moved == Store(heap, turtle.position, VecCell(NewVal(vals)))
         color == GetPlantColor(turtle.depth, TIME)
         colorCell == Fresh(moved)
         t2 == [turtle EXCEPT !.color = colorCell]
     IN /\ vals' = Append(vals, AddScaled(p, d, turtle.length, mult))
        /\ turtle' = t2
        /\ heap' = Collect(Store(moved, colorCell, color), t2, stack, restored)
        /\ branches' = PushBranch(branches,
                                  Mesh(p, d, turtle.length, mult, turtle.radius, color))
  /\ charIndex' = charIndex + 1
  /\ UNCHANGED <<stack, restored, lastCall, atPush>>
  /\ TraversalFrame

\* new THREE.Vector3(Math.random() - 0.5, ...), in quarters (lines 150-154)
RotationAxis(rs) == <<rs[2] - 2, rs[3] - 2, rs[4] - 2>>

\* a turn that leaves depth alone
TurnNoDepth(axis, angle) ==
  /\ vals' = Append(vals, ApplyAxisAngle(ValOf(heap, turtle.direction), axis, angle))
  /\ heap' = Store(heap, turtle.direction, VecCell(NewVal(vals)))
  /\ charIndex' = charIndex + 1
  /\ UNCHANGED <<turtle, stack, restored, branches, lastCall, atPush>>
  /\ TraversalFrame

\* the body shared by case '+' and case '-': rotate direction in place by angle
Turn(axis, angle) ==
  /\ vals' = Append(vals, ApplyAxisAngle(ValOf(heap, turtle.direction), axis, angle))
  /\ heap' = Store(heap, turtle.direction, VecCell(NewVal(vals)))
  /\ turtle' = [turtle EXCEPT !.depth = @ + 1]
  /\ charIndex' = charIndex + 1
  /\ UNCHANGED <<stack, restored, branches, lastCall, atPush>>
  /\ TraversalFrame

\* case '+', lines 146-158
CasePlus(rs) ==
  /\ AtChar("+")
  /\ Turn(RotationAxis(rs), ActualAngle(turtle.angle, rs[1]))

\* case '-' with actualAngle passed as it is, not negated
CaseMinusSameSign(rs) ==
  /\ AtChar("-")
  /\ Turn(RotationAxis(rs), ActualAngle(turtle.angle, rs[1]))

\* case '-', lines 160-172
CaseMinus(rs) ==
  /\ AtChar("-")
  /\ Turn(RotationAxis(rs), Negated(ActualAngle(turtle.angle, rs[1])))

\* case '[' with the push moved below the three assignments
CaseOpenShrinkFirst(v) ==
  /\ AtChar("[")
  /\ LET shrunk == [turtle EXCEPT !.length = Times07(@),
                                  !.radius = Times07(@),
                                  !.depth = @ + 2]
         pushed == Push(heap, stack, shrunk)
         d == ValOf(heap, turtle.direction)
     IN /\ stack' = pushed.stack
        /\ turtle' = shrunk
        /\ vals' = Append(vals, AddNormalize(d, SpatialVariation(v)))
        /\ heap' = Store(pushed.heap, turtle.direction, VecCell(NewVal(vals)))
  /\ charIndex' = charIndex + 1
  /\ UNCHANGED <<restored, branches, lastCall, atPush>>
  /\ TraversalFrame

\* case '[', lines 174-186
CaseOpen(v) ==
  /\ AtChar("[")
  /\ LET pushed == Push(heap, stack, turtle)
         d == ValOf(heap, turtle.direction)
     IN /\ stack' = pushed.stack
        /\ turtle' = [turtle EXCEPT !.length = Times07(@),
                                    !.radius = Times07(@),
                                    !.depth = @ + 2]
        /\ vals' = Append(vals, AddNormalize(d, SpatialVariation(v)))
        /\ heap' = Store(pushed.heap, turtle.direction, VecCell(NewVal(vals)))
  /\ charIndex' = charIndex + 1
  /\ UNCHANGED <<restored, branches, lastCall, atPush>>
  /\ TraversalFrame

\* case ']' that takes position and direction from the snapshot and keeps
\* the other fields of the live state (a merge)
CaseCloseMerge ==
  /\ AtChar("]")
  /\ LET popped == Pop(heap, stack)
         t1 == IF popped.state # Null
               THEN [turtle EXCEPT !.position = popped.state.position,
                                   !.direction = popped.state.direction]
               ELSE turtle
         t2 == [t1 EXCEPT !.depth = @ - 2]
     IN /\ stack' = popped.stack
        /\ restored' = popped.state
        /\ turtle' = t2
        /\ heap' = Collect(popped.heap, t2, popped.stack, Null)
  /\ charIndex' = charIndex + 1
  /\ UNCHANGED <<vals, branches, lastCall, atPush>>
  /\ TraversalFrame

\* the restore without the decrement of line 193
CaseCloseNoDrift ==
  /\ AtChar("]")
  /\ LET popped == Pop(heap, stack)
         t2 == IF popped.state # Null THEN popped.state ELSE turtle
     IN /\ stack' = popped.stack
        /\ restored' = popped.state
        /\ turtle' = t2
        /\ heap' = Collect(popped.heap, t2, popped.stack, Null)
  /\ charIndex' = charIndex + 1
  /\ UNCHANGED <<vals, branches, lastCall, atPush>>
  /\ TraversalFrame

\* case ']' with the decrement moved inside `if (restored)`
CaseCloseGuarded ==
  /\ AtChar("]")
  /\ LET popped == Pop(heap, stack)
         t2 == IF popped.state # Null
               THEN [popped.state EXCEPT !.depth = @ - 2] ELSE turtle
     IN /\ stack' = popped.stack
        /\ restored' = popped.state
        /\ turtle' = t2
        /\ heap' = Collect(popped.heap, t2, popped.stack, Null)
  /\ charIndex' = charIndex + 1
  /\ UNCHANGED <<vals, branches, lastCall, atPush>>
  /\ TraversalFrame

\* case ']', lines 188-194
CaseClose ==
  /\ AtChar("]")
  /\ LET popped == Pop(heap, stack)
         t1 == IF popped.state # Null THEN popped.state ELSE turtle
         t2 == [t1 EXCEPT !.depth = @ - 2]
     IN /\ stack' = popped.stack
        /\ restored' = popped.state
        /\ turtle' = t2
        /\ heap' = Collect(popped.heap, t2, popped.stack, Null)
  /\ charIndex' = charIndex + 1
  /\ UNCHANGED <<vals, branches, lastCall, atPush>>
  /\ TraversalFrame

\* a default case that moves the turtle forward without drawing
CaseNoneMoves ==
  /\ pc = "interpret"
  /\ charIndex <= Len(currentString)
  /\ CharAt(currentString, charIndex) \notin {"F", "+", "-", "[", "]"}
  /\ vals' = Append(vals, AddScaled(ValOf(heap, turtle.position),
                                    ValOf(heap, turtle.direction), turtle.length, 400))
  /\ heap' = Store(heap, turtle.position, VecCell(NewVal(vals)))
  /\ charIndex' = charIndex + 1
  /\ UNCHANGED <<turtle, stack, restored, branches, lastCall, atPush>>
  /\ TraversalFrame

\* any other character: no case of the switch matches
CaseNone ==
  /\ pc = "interpret"
  /\ charIndex <= Len(currentString)
  /\ CharAt(currentString, charIndex) \notin {"F", "+", "-", "[", "]"}
  /\ charIndex' = charIndex + 1
  /\ UNCHANGED <<turtle, stack, restored, heap, vals, branches, lastCall, atPush>>
  /\ TraversalFrame

\* return branches, line 198
Return ==
  /\ pc = "interpret"
  /\ charIndex > Len(currentString)
  /\ pc' = "done"
  /\ UNCHANGED <<cfg, i, currentString, turtleVars, runVars>>

----------------------------------------------------------------------------
(* The rewrite loop as steps, lines 94-105 *)

\* one generation: the body of the outer for loop
ExpandStep ==
  /\ pc = "expand"
  /\ i < cfg.iterations
  /\ currentString' = Rewrite(cfg.rules, currentString)
  /\ i' = i + 1
  /\ UNCHANGED <<cfg, pc, turtleVars, runVars>>

\* the loop ends and the traversal of line 107 begins
ExpandDone ==
  /\ pc = "expand"
  /\ i >= cfg.iterations
  /\ pc' = "interpret"
  /\ UNCHANGED <<cfg, i, currentString, turtleVars, runVars>>

----------------------------------------------------------------------------
(* Values, for comparing what objects hold *)

\* a TurtleState with each cell replaced by what it holds
View(h, state) ==
  IF state = Null THEN Null
  ELSE [position |-> ValOf(h, state.position),
        direction |-> ValOf(h, state.direction),
        length |-> state.length, angle |-> state.angle,
        color |-> h[state.color], radius |-> state.radius,
        depth |-> state.depth]

ViewStack(h, stk) == [n \in DOMAIN stk |-> View(h, stk[n])]

RECURSIVE Term(_, _)
\* the vector term with index id, written out
Term(tbl, id) ==
  LET node == tbl[id]
  IN IF node[1] = "vec" THEN node
     ELSE IF node[1] = "addScaled"
       THEN <<"addScaled", Term(tbl, node[2]), Term(tbl, node[3]), node[4], node[5]>>
     ELSE IF node[1] = "applyAxisAngle"
       THEN <<"applyAxisAngle", Term(tbl, node[2]), node[3], node[4], node[5],
              node[6], node[7]>>
     ELSE <<"addNormalize", Term(tbl, node[2]), node[3], node[4], node[5]>>

\* a mesh with its vectors written out
MeshValue(tbl, b) ==
  [position |-> <<Term(tbl, b.position[1]), Term(tbl, b.position[2]),
                  b.position[3], b.position[4]>>,
   quaternion |-> <<IF b.quaternion[1][1] = "crossUp"
                     THEN <<"crossUp", Term(tbl, b.quaternion[1][2])>>
                     ELSE b.quaternion[1],
                   Term(tbl, b.quaternion[2])>>,
   height |-> b.height, radiusTop |-> b.radiusTop,
   radiusBottom |-> b.radiusBottom, color |-> b.color]

BranchValues(tbl, bs) == [n \in DOMAIN bs |-> MeshValue(tbl, bs[n])]

----------------------------------------------------------------------------
(* Initial states *)

NoRules == [c \in {} |-> ""]

RECURSIVE StringsOfLen(_, _)
\* all strings over S of length n
StringsOfLen(S, n) ==
  IF n = 0 THEN {""} ELSE {s \o c : s \in StringsOfLen(S, n - 1), c \in S}

\* all strings over S of length at most n
StringsUpTo(S, n) == UNION {StringsOfLen(S, m) : m \in 0..n}

\* the state of line 92: nothing traversed yet
FreshTurtle ==
  /\ charIndex = 1
  /\ turtle = InitTurtle
  /\ stack = << >>
  /\ restored = Null
  /\ heap = InitHeap
  /\ vals = InitVals
  /\ branches = << >>
  /\ lastCall = "none"
  /\ atPush = Null

\* the traversal of any short string: a grammar whose axiom is the string,
\* run for no generation, with the configured variation factors
Init ==
  /\ \E s \in StringsUpTo(Symbols, MaxLen) :
       /\ cfg = [axiom |-> s, rules |-> NoRules, iterations |-> 0,
                 lengthVariation |-> LENGTH_VARIATION,
                 angleVariation |-> ANGLE_VARIATION]
       /\ currentString = s
  /\ i = 0
  /\ pc = "interpret"
  /\ FreshTurtle
  /\ run = 1
  /\ firstRun = << >>
  /\ harness = NoStub

Next ==
  \/ \E r \in Draws : CaseF(r)
  \/ \E rs \in TurnDraws : CasePlus(rs)
  \/ \E rs \in TurnDraws : CaseMinus(rs)
  \/ \E v \in PerturbDraws : CaseOpen(v)
  \/ CaseClose
  \/ CaseNone
  \/ Return

Spec == Init /\ [][Next]_vars

\* the program as configured, run for 0..ITERATIONS generations with
\* Math.random stubbed to a constant
InitTree ==
  /\ \E n \in 0..ITERATIONS : cfg = SPATIAL_TREE_RULES(n)
  /\ currentString = cfg.axiom
  /\ i = 0
  /\ pc = "expand"
  /\ FreshTurtle
  /\ run = 1
  /\ firstRun = << >>
  /\ harness = [NoStub EXCEPT !.constantRandom = TRUE]

NextTree ==
  \/ ExpandStep
  \/ ExpandDone
  \/ \E r \in Draws : CaseF(r)
  \/ \E rs \in TurnDraws : CasePlus(rs)
  \/ \E rs \in TurnDraws : CaseMinus(rs)
  \/ \E v \in PerturbDraws : CaseOpen(v)
  \/ CaseClose
  \/ CaseNone
  \/ Return

SpecTree == InitTree /\ [][NextTree]_vars

----------------------------------------------------------------------------
(* The rewrite loop alone, over small grammars *)

Replacements == {"", "F", "FF", "F[X]"}

\* every rule mapping with keys among X and F
RuleSets == UNION {[D -> Replacements] : D \in SUBSET {"X", "F"}}

InitExpand ==
  /\ \E a \in StringsUpTo(Symbols, MaxAxiom), rules \in RuleSets, n \in 0..MaxIter :
       cfg = [axiom |-> a, rules |-> rules, iterations |-> n,
              lengthVariation |-> LENGTH_VARIATION,
              angleVariation |-> ANGLE_VARIATION]
  /\ currentString = cfg.axiom
  /\ i = 0
  /\ pc = "expand"
  /\ FreshTurtle
  /\ run = 1
  /\ firstRun = << >>
  /\ harness = NoStub

NextExpand == ExpandStep \/ ExpandDone

SpecExpand == InitExpand /\ [][NextExpand]_vars

----------------------------------------------------------------------------
(* C1: after n generations the string is the axiom rewritten n times, each   *)
(* character c replaced by R[c] when c has a rule and kept otherwise, the    *)
(* pieces concatenated in order.                                             *)

\* what c is replaced by; a rule with the empty replacement counts when
\* emptyToo holds, and otherwise leaves c as it is
ClaimedChar(rules, c, emptyToo) ==
  IF c \in DOMAIN rules /\ (emptyToo \/ Len(rules[c]) > 0) THEN rules[c] ELSE c

RECURSIVE ClaimedRewrite(_, _, _)
ClaimedRewrite(rules, s, emptyToo) ==
  IF s = "" THEN ""
  ELSE ClaimedChar(rules, Head(s), emptyToo) \o ClaimedRewrite(rules, Tail(s), emptyToo)

RECURSIVE ClaimedExpand(_, _, _, _)
ClaimedExpand(rules, s, n, emptyToo) ==
  IF n = 0 THEN s
  ELSE ClaimedExpand(rules, ClaimedRewrite(rules, s, emptyToo), n - 1, emptyToo)

XF_Rules == [c \in {"X", "F"} |-> IF c = "X" THEN "F" ELSE "FF"]

\* C1 as claimed: every character with a rule is replaced, whatever the
\* length of its replacement
C1_ExpansionAsClaimed ==
  currentString = ClaimedExpand(cfg.rules, cfg.axiom, i, TRUE)

\* C1 amended: after n generations the string is the axiom rewritten n times,
\* a character replaced when its rule's replacement is not empty and kept
\* otherwise; X with {X -> F, F -> FF} gives FF after 2 generations
C1_Expansion ==
  /\ currentString = ClaimedExpand(cfg.rules, cfg.axiom, i, FALSE)
  /\ (cfg.axiom = "X" /\ cfg.rules = XF_Rules /\ i = 2) => currentString = "FF"

\* the example of the claim, after its second generation
C1_Witness ==
  /\ cfg.axiom = "X"
  /\ cfg.rules = XF_Rules
  /\ i = 2
  /\ currentString = "FF"

----------------------------------------------------------------------------
(* C7: with 0 iterations the result is the axiom, and no generation makes    *)
(* the string shorter: the length after n+1 generations is at least the      *)
(* length after n.                                                           *)

C7_ZeroAndMonotonic ==
  /\ [](pc = "interpret" /\ cfg.iterations = 0 => currentString = cfg.axiom)
  /\ [][Len(currentString') >= Len(currentString)]_vars

\* two generations done, an erasing rule in the grammar, and the string grew
C7_Witness ==
  /\ pc = "interpret"
  /\ i = 2
  /\ \E c \in DOMAIN cfg.rules : cfg.rules[c] = ""
  /\ Len(currentString) > Len(cfg.axiom)

----------------------------------------------------------------------------
(* TurtleStack alone: a client that pushes its state s (held in turtle),    *)
(* pops (into restored), and changes s or the popped copy in place.         *)

InitStack ==
  /\ cfg = SPATIAL_TREE_RULES(ITERATIONS)
  /\ currentString = ""
  /\ i = 0
  /\ pc = "stack"
  /\ FreshTurtle
  /\ run = 1
  /\ firstRun = << >>
  /\ harness = NoStub

StackFrame == UNCHANGED <<cfg, i, currentString, pc, charIndex, branches, runVars>>

\* stack.push(s)
StackPush ==
  /\ pc = "stack"
  /\ Len(stack) < MaxStack
  /\ LET pushed == Push(heap, stack, turtle)
     IN /\ stack' = pushed.stack
        /\ heap' = pushed.heap
  /\ lastCall' = "push"
  /\ atPush' = [state |-> View(heap, turtle), stack |-> ViewStack(heap, stack)]
  /\ UNCHANGED <<turtle, restored, vals>>
  /\ StackFrame

\* restored = stack.pop()
StackPop ==
  /\ pc = "stack"
  /\ LET popped == Pop(heap, stack)
     IN /\ stack' = popped.stack
        /\ restored' = popped.state
        /\ heap' = Collect(popped.heap, turtle, popped.stack, popped.state)
  /\ lastCall' = IF lastCall = "push" THEN "push, pop" ELSE "pop"
  /\ UNCHANGED <<turtle, vals, atPush>>
  /\ StackFrame

\* every field of state t changed as the interpreter changes fields: the
\* vectors and the color in place, the scalars by assignment
Mutated(t) == [t EXCEPT !.length = Times07(@), !.radius = Times07(@),
                        !.depth = @ + 2, !.angle = Negated(@)]

MutatedHeap(h, t) ==
  [c \in DOMAIN h |->
     IF c = t.position THEN VecCell(NewVal(vals))
     ELSE IF c = t.direction THEN VecCell(NewVal(vals) + 1)
     ELSE IF c = t.color THEN Hex("000000")
     ELSE h[c]]

MutatedVals(h, t) ==
  vals \o <<AddScaled(ValOf(h, t.position), ValOf(h, t.direction), t.length, 400),
            AddNormalize(ValOf(h, t.direction), <<3, 0, 3>>)>>

\* the client changes s
MutateS ==
  /\ pc = "stack"
  /\ Len(vals) < Len(InitVals) + 2 * MaxMutations
  /\ turtle' = Mutated(turtle)
  /\ heap' = MutatedHeap(heap, turtle)
  /\ vals' = MutatedVals(heap, turtle)
  /\ lastCall' = "mutate s"
  /\ UNCHANGED <<stack, restored, atPush>>
  /\ StackFrame

\* the client changes the copy pop returned
MutatePopped ==
  /\ pc = "stack"
  /\ restored # Null
  /\ Len(vals) < Len(InitVals) + 2 * MaxMutations
  /\ restored' = Mutated(restored)
  /\ heap' = MutatedHeap(heap, restored)
  /\ vals' = MutatedVals(heap, restored)
  /\ lastCall' = "mutate popped"
  /\ UNCHANGED <<stack, turtle, atPush>>
  /\ StackFrame

NextStack == StackPush \/ StackPop \/ MutateS \/ MutatePopped

SpecStack == InitStack /\ [][NextStack]_vars

----------------------------------------------------------------------------
(* C3: push(s) immediately followed by pop() returns a state equal to s in   *)
(* every field and leaves the stack as it was before the push; the returned  *)
(* state shares no object with s or with any stack entry, so changing s or   *)
(* the popped copy afterwards changes neither the other nor any snapshot.    *)

\* the states the client holds or the stack keeps, in a row
HeldStates == (IF restored = Null THEN <<turtle>> ELSE <<turtle, restored>>) \o stack

\* no two of them refer to the same object, and each has three objects of its own
NoSharedReference ==
  \A m \in DOMAIN HeldStates :
    /\ Cardinality(CellsOf(HeldStates[m])) = 3
    /\ \A n \in DOMAIN HeldStates :
         m # n => CellsOf(HeldStates[m]) \cap CellsOf(HeldStates[n]) = {}

\* right after push(s), pop(): the copy equals s, the stack is what it was
RoundTrip ==
  lastCall = "push, pop" =>
    /\ restored # Null
    /\ View(heap, restored) = View(heap, turtle)
    /\ View(heap, restored) = atPush.state
    /\ ViewStack(heap, stack) = atPush.stack

\* a change of s leaves the popped copy and the snapshots as they were, and a
\* change of the popped copy leaves s and the snapshots as they were
Independent ==
  /\ lastCall' = "mutate s" =>
       /\ View(heap', restored') = View(heap, restored)
       /\ ViewStack(heap', stack') = ViewStack(heap, stack)
  /\ lastCall' = "mutate popped" =>
       /\ View(heap', turtle') = View(heap, turtle)
       /\ ViewStack(heap', stack') = ViewStack(heap, stack)

\* C3: no object is shared, push then pop gives back s and the stack, and a
\* change of s or of the popped copy reaches nothing else
C3_RoundTrip == []NoSharedReference /\ []RoundTrip /\ [][Independent]_vars

\* a changed s pushed on a stack that held a snapshot already, and popped at once
C3_Witness ==
  /\ lastCall = "push, pop"
  /\ Len(stack) = 1
  /\ turtle.depth > 0
  /\ View(heap, stack[1]) # View(heap, turtle)

----------------------------------------------------------------------------
(* Two calls of generatePlantGeometry on one string (React's StrictMode      *)
(* calls the useMemo callback of PlantGeometry twice), with both variation   *)
(* factors zero and the rotation axis stubbed to one value; the '['          *)
(* perturbation is stubbed too, or left free.                                *)

InitPair ==
  /\ \E s \in StringsUpTo(Symbols, MaxLen) :
       /\ cfg = [axiom |-> s, rules |-> NoRules, iterations |-> 0,
                 lengthVariation |-> 0, angleVariation |-> 0]
       /\ currentString = s
  /\ i = 0
  /\ pc = "interpret"
  /\ FreshTurtle
  /\ run = 1
  /\ firstRun = << >>
  /\ \E b \in BOOLEAN :
       harness = [constantRandom |-> FALSE, fixedAxis |-> TRUE, fixedPerturb |-> b]

\* the second call: the first result is kept, everything else starts afresh
Rerun ==
  /\ pc = "done"
  /\ run = 1
  /\ firstRun' = BranchValues(vals, branches)
  /\ run' = 2
  /\ pc' = "interpret"
  /\ charIndex' = 1
  /\ turtle' = InitTurtle
  /\ stack' = << >>
  /\ restored' = Null
  /\ heap' = InitHeap
  /\ vals' = InitVals
  /\ branches' = << >>
  /\ UNCHANGED <<cfg, i, currentString, lastCall, atPush, harness>>

NextPair ==
  \/ \E r \in Draws : CaseF(r)
  \/ \E rs \in TurnDraws : CasePlus(rs)
  \/ \E rs \in TurnDraws : CaseMinus(rs)
  \/ \E v \in PerturbDraws : CaseOpen(v)
  \/ CaseClose
  \/ CaseNone
  \/ Return
  \/ Rerun

SpecPair == InitPair /\ [][NextPair]_vars

----------------------------------------------------------------------------
(* Steps of the traversal, as the properties below name them *)

\* the handler of character c runs in this step
Handles(c) == AtChar(c) /\ charIndex' = charIndex + 1

\* how many of the first n characters of s are c
Count(s, c, n) == Cardinality({m \in 1..n : CharAt(s, m) = c})

\* the characters of s
Chars(s) == {CharAt(s, m) : m \in 1..Len(s)}

----------------------------------------------------------------------------
(* C2: at every step the number of branches emitted so far is the number of  *)
(* F consumed so far, and at the end it is the number of F in the string.    *)

C2_BranchCount ==
  /\ pc \in {"interpret", "done"} =>
       Len(branches) = Count(currentString, "F", charIndex - 1)
  /\ pc = "done" => Len(branches) = Count(currentString, "F", Len(currentString))

\* a finished traversal of a string with two F among other symbols
C2_Witness ==
  /\ pc = "done"
  /\ Len(branches) = 2
  /\ Len(currentString) = 4

----------------------------------------------------------------------------
(* C4: ']' on an empty stack raises nothing: the traversal goes on, the      *)
(* stack stays empty, position, direction, length and radius (and angle and  *)
(* color) are unchanged and depth is lower by exactly 0.2.                   *)

C4_UnmatchedClose ==
  /\ [](AtChar("]") /\ stack = << >> => ENABLED CaseClose)
  /\ [][Handles("]") /\ stack = << >> =>
          /\ pc' = "interpret"
          /\ stack' = << >>
          /\ restored' = Null
          /\ View(heap', turtle') = [View(heap, turtle) EXCEPT !.depth = @ - 2]]_vars

\* just after an unmatched ']' that followed an F and a turn
C4_Witness ==
  /\ pc = "interpret"
  /\ charIndex = 4
  /\ CharAt(currentString, 3) = "]"
  /\ Chars(currentString) = {"F", "+", "]"}
  /\ restored = Null
  /\ turtle.depth = -1

----------------------------------------------------------------------------
(* The configured program, its string expanded and being traversed or done *)

Configured == cfg.iterations = ITERATIONS /\ pc \in {"interpret", "done"}

\* C5: in every state the interpreter reaches while it traverses the expanded
\* string of the configured grammar (axiom X, the two rules, 4 iterations,
\* initial depth 0), depth is at least 0
C5_DepthNonNegative == Configured => turtle.depth >= 0

\* C5 amended: in every such state depth is at least -4.1; it is below 0 in
\* some of them
C5_DepthBounded == Configured => turtle.depth >= -41

\* a state of the configured traversal with depth below 0: a matched ']' has
\* put back the depth saved at its '[' and taken 0.2 off
C5_Witness ==
  /\ Configured
  /\ pc = "interpret"
  /\ turtle.depth < 0
  /\ restored # Null
  /\ CharAt(currentString, charIndex - 1) = "]"

----------------------------------------------------------------------------
(* C6: with lengthVariation and angleVariation zero and the rotation axis    *)
(* fixed, two runs on the same string give the same branches (positions,     *)
(* orientations, lengths, radii, colors), whatever the other draws are.      *)

BothRunsDone == pc = "done" /\ run = 2

\* C6 as claimed: the '[' perturbation is one of the other draws
C6_Deterministic == BothRunsDone => BranchValues(vals, branches) = firstRun

\* C6 amended: the '[' perturbation is fixed as well
C6_DeterministicFixedPerturb ==
  BothRunsDone /\ harness.fixedPerturb => BranchValues(vals, branches) = firstRun

\* two runs done: a turn, a '[' and F drawn after both, the draws of F and of
\* the angle variation free in each run
C6_Witness ==
  /\ BothRunsDone
  /\ harness.fixedPerturb
  /\ currentString = "+[FF"
  /\ BranchValues(vals, branches) = firstRun

----------------------------------------------------------------------------
(* C8: an emitted branch never changes: every step keeps every branch        *)
(* emitted so far, at its place, with its position, orientation, length,     *)
(* radii and color; the sequence grows at its end only.                      *)

C8_BranchesImmutable ==
  [][/\ Len(branches') >= Len(branches)
     /\ \A n \in DOMAIN branches :
          MeshValue(vals', branches'[n]) = MeshValue(vals, branches[n])]_vars

\* F, a turn, then F again: two branches, the second of another color
C8_Witness ==
  /\ pc = "done"
  /\ Len(branches) = 2
  /\ CharAt(currentString, 1) = "F"
  /\ branches[1].color # branches[2].color
  /\ branches[1].position # branches[2].position

----------------------------------------------------------------------------
(* C9: ']' on a non-empty stack replaces the live state by the snapshot      *)
(* pushed last (depth then lowered by 0.2) and takes it off the stack; a     *)
(* snapshot is the live state as it was before its '[' and no step changes   *)
(* it while it is on the stack, so position, direction, length, angle and    *)
(* radius are again what they were before the matching '['.                  *)

\* the snapshots on the stack in both states of a step are the same
SnapshotsKept ==
  \A n \in DOMAIN stack \cap DOMAIN stack' :
    View(heap', stack'[n]) = View(heap, stack[n])

\* C9: snapshots on the stack never change, '[' pushes the live state, and a
\* matched ']' makes the last snapshot the live state, depth lowered by 0.2
C9_MatchedClose ==
  /\ [][SnapshotsKept]_vars
  /\ [][Handles("[") =>
          View(heap', stack'[Len(stack')]) = View(heap, turtle)]_vars
  /\ [][Handles("]") /\ stack # << >> =>
          /\ View(heap', turtle') =
               [View(heap, stack[Len(stack)]) EXCEPT !.depth = @ - 2]
          /\ Len(stack') = Len(stack) - 1]_vars

\* '[', F and a turn inside, then the matching ']'
C9_Witness ==
  /\ pc = "done"
  /\ currentString = "[F-]"
  /\ stack = << >>
  /\ turtle.depth = -2
  /\ ValOf(heap, turtle.position) = 1
  /\ ValOf(heap, turtle.direction) = 2

----------------------------------------------------------------------------
(* C10: '[' pushes a snapshot equal to the live state before the step, then  *)
(* multiplies length and radius by 0.7 and adds 0.2 to depth; position is    *)
(* unchanged, the stack grows by one entry, no branch is emitted.            *)

C10_Open ==
  [][Handles("[") =>
       /\ Len(stack') = Len(stack) + 1
       /\ View(heap', stack'[Len(stack')]) = View(heap, turtle)
       /\ \A n \in DOMAIN stack : View(heap', stack'[n]) = View(heap, stack[n])
       /\ 10 * (turtle'.length \div 7) = turtle.length
       /\ 10 * (turtle'.radius \div 7) = turtle.radius
       /\ turtle'.length % 7 = 0 /\ turtle'.radius % 7 = 0
       /\ turtle'.depth = turtle.depth + 2
       /\ turtle'.angle = turtle.angle
       /\ ValOf(heap', turtle'.position) = ValOf(heap, turtle.position)
       /\ branches' = branches]_vars

\* two '[' in a row after a turn: the second pushes a shrunk, deeper state
C10_Witness ==
  /\ currentString = "+[[F"
  /\ charIndex = 4
  /\ Len(stack) = 2
  /\ stack[2].depth = 3
  /\ turtle.depth = 5

----------------------------------------------------------------------------
(* C11: 'F' leaves direction, length, radius, depth and the stack unchanged; *)
(* it moves position by direction x (length x multiplier), the multiplier in *)
(* [1 - lengthVariation/2, 1 + lengthVariation/2], and the branch emitted    *)
(* has that same length x multiplier as its length.                          *)

\* the multipliers of the claimed interval, in 1/400
Multipliers == (400 - 2 * cfg.lengthVariation)..(400 + 2 * cfg.lengthVariation)

C11_Forward ==
  [][Handles("F") =>
       /\ ValOf(heap', turtle'.direction) = ValOf(heap, turtle.direction)
       /\ turtle'.length = turtle.length
       /\ turtle'.radius = turtle.radius
       /\ turtle'.depth = turtle.depth
       /\ ViewStack(heap', stack') = ViewStack(heap, stack)
       /\ Len(branches') = Len(branches) + 1
       /\ \E mult \in Multipliers :
            /\ vals'[ValOf(heap', turtle'.position)] =
                 AddScaled(ValOf(heap, turtle.position), ValOf(heap, turtle.direction),
                           turtle.length, mult)
            /\ branches'[Len(branches')].height = <<turtle.length, mult>>]_vars

\* an F inside a bracket, drawn shorter than the live length
C11_Witness ==
  /\ currentString = "+[F"
  /\ pc = "done"
  /\ turtle.length = Times07(InitLength)
  /\ branches[1].height = <<Times07(InitLength), 380>>

----------------------------------------------------------------------------
(* C12: '+' and '-' each add exactly 0.1 to depth and leave position,        *)
(* length, radius, the stack and the branches unchanged; direction is        *)
(* rotated by +(angle + jitter) for '+' and by -(angle + jitter) for '-',    *)
(* the jitter in [-angleVariation/2, +angleVariation/2].                     *)

\* the jitters of the claimed interval, in 1/400 rad
Jitters == (0 - 2 * cfg.angleVariation)..(2 * cfg.angleVariation)

\* the step rotates direction by sign x (turtle.angle + jitter) about some axis
Rotated(sign) ==
  LET node == vals'[ValOf(heap', turtle'.direction)]
  IN /\ node[1] = "applyAxisAngle"
     /\ node[2] = ValOf(heap, turtle.direction)
     /\ \E j \in Jitters :
          <<node[6], node[7]>> = <<sign * turtle.angle[1], sign * (turtle.angle[2] + j)>>

\* what a turn leaves alone, and what it does to depth
TurnFrame ==
  /\ turtle'.depth = turtle.depth + 1
  /\ ValOf(heap', turtle'.position) = ValOf(heap, turtle.position)
  /\ turtle'.length = turtle.length
  /\ turtle'.radius = turtle.radius
  /\ turtle'.angle = turtle.angle
  /\ ViewStack(heap', stack') = ViewStack(heap, stack)
  /\ BranchValues(vals', branches') = BranchValues(vals, branches)

C12_Turns ==
  /\ [][Handles("+") => TurnFrame /\ Rotated(1)]_vars
  /\ [][Handles("-") => TurnFrame /\ Rotated(-1)]_vars

\* a '+' and a '-' done after a branch was drawn inside a bracket
C12_Witness ==
  /\ currentString = "[F+-"
  /\ pc = "done"
  /\ turtle.depth = 4
  /\ vals[ValOf(heap, turtle.direction)][6] = -1

----------------------------------------------------------------------------
(* C13: a character other than F, +, -, [ and ] (such as X) raises no error  *)
(* and leaves the turtle state, the stack and the branches unchanged.        *)

\* the loop is at a character no case handles
AtUnknown ==
  /\ pc = "interpret"
  /\ charIndex <= Len(currentString)
  /\ CharAt(currentString, charIndex) \notin {"F", "+", "-", "[", "]"}

C13_UnknownNoOp ==
  /\ [](AtUnknown => ENABLED CaseNone)
  /\ [][AtUnknown /\ charIndex' = charIndex + 1 =>
          /\ pc' = "interpret"
          /\ View(heap', turtle') = View(heap, turtle)
          /\ ViewStack(heap', stack') = ViewStack(heap, stack)
          /\ BranchValues(vals', branches') = BranchValues(vals, branches)]_vars

\* an X passed over with a snapshot on the stack and a branch emitted
C13_Witness ==
  /\ currentString = "F[+X"
  /\ pc = "done"
  /\ Len(stack) = 1
  /\ Len(branches) = 1
  /\ turtle.depth = 3

----------------------------------------------------------------------------
(* The color getPlantColor returned for the branch emitted last *)

LastColor == branches[Len(branches)].color

\* its gradient parameter t, in fiftieths: the blend factor is t / 0.3 on the
\* trunk-to-branch segment and (t - 0.3) / 0.7 on the branch-to-twig segment
GradientT(color) == IF color[2] = "8B4513" THEN color[4] ELSE color[4] + 15

\* C14: for every depth getPlantColor is called with while the configured
\* grammar's expanded string is traversed, t lies in [0, 1] and the blend
\* factor of its segment lies in [0, 1]
C14_ColorRange ==
  Configured /\ branches # << >> =>
    /\ GradientT(LastColor) \in 0..50
    /\ LastColor[4] >= 0
    /\ LastColor[4] <= LastColor[5]

----------------------------------------------------------------------------
(* Where a mesh's cylinder lies.  CylinderGeometry(radiusTop, radiusBottom,  *)
(* height) is built along the local y axis, its top cap centred at           *)
(* (0, +height/2, 0) and its bottom cap at (0, -height/2, 0); the mesh puts  *)
(* a local point v at position + quaternion(v).                              *)

\* where the mesh's rotation takes the local y axis: about the normalized
\* up x d by the angle between up and d it takes up onto d; with the zero axis
\* (and the angle 0) it is the identity
RotatedUp(tbl, b) ==
  IF b.quaternion[1] = Vec(0, 0, 0) THEN Vec(0, 1, 0) ELSE Term(tbl, b.quaternion[2])

\* the centre of the top cap (side 1) or of the bottom cap (side -1), as a term
CapCentre(tbl, b, side) ==
  LET start == Term(tbl, b.position[1])
      along == Term(tbl, b.position[2])
  IN IF RotatedUp(tbl, b) = along /\ b.height = <<b.position[3], b.position[4]>>
     THEN IF side = 1
          THEN <<"addScaled", start, along, b.height[1], b.height[2]>>
          ELSE start
     ELSE <<"offset", start, along, b.position[3], b.position[4],
            RotatedUp(tbl, b), side, b.height>>

\* the radius of the cylinder at that cap
RadiusAt(b, side) == IF side = 1 THEN b.radiusTop ELSE b.radiusBottom

\* the branch of this F step has a cap at the old position with radius
\* nearRadius and the other cap at the new position with radius farRadius
Spans(nearRadius, farRadius) ==
  LET b == branches'[Len(branches')]
      old == Term(vals, ValOf(heap, turtle.position))
      new == Term(vals', ValOf(heap', turtle'.position))
  IN \E near \in {1, -1} :
       /\ CapCentre(vals', b, near) = old
       /\ CapCentre(vals', b, 0 - near) = new
       /\ RadiusAt(b, near) = nearRadius
       /\ RadiusAt(b, 0 - near) = farRadius

\* C15 as claimed: every branch spans from the old position to the new one,
\* with radius x 0.8 at the old position and radius at the new position
C15_TaperNearThin ==
  [][Handles("F") => Spans(Times08(turtle.radius), turtle.radius)]_vars

\* C15 amended: every branch spans from the old position to the new one, with
\* radius at the old position and radius x 0.8 at the new position
C15_TaperFarThin ==
  [][Handles("F") => Spans(turtle.radius, Times08(turtle.radius))]_vars

\* a branch drawn after a turn inside a bracket: thinner at its far end
C15_Witness ==
  /\ currentString = "[+F"
  /\ pc = "done"
  /\ RadiusAt(branches[1], -1) = Times07(InitRadius)
  /\ RadiusAt(branches[1], 1) = Times08(Times07(InitRadius))
  /\ CapCentre(vals, branches[1], -1) = Vec(0, 0, 0)
  /\ CapCentre(vals, branches[1], 1) = Term(vals, ValOf(heap, turtle.position))

----------------------------------------------------------------------------
(* Directions parallel to up *)

\* the direction of branch b is up itself
AlongUp(b) == vals[b.quaternion[2]] = Vec(0, 1, 0)

\* C16: whenever F is processed with direction parallel (or anti-parallel) to
\* up, as at the very first F, the branch's orientation is computed from a
\* non-zero fallback axis, never from a zero-length axis
C16_FallbackAxis ==
  \A n \in DOMAIN branches :
    AlongUp(branches[n]) => branches[n].quaternion[1] # Vec(0, 0, 0)

----------------------------------------------------------------------------
\* C17: for the configured axiom and rules and every iteration count from 0
\* to 4, the traversal never processes ']' with an empty stack, every '[' is
\* matched by a later ']', and the stack is empty when the traversal ends
C17_WellFormed ==
  /\ AtChar("]") => stack # << >>
  /\ pc = "done" =>
       /\ stack = << >>
       /\ Count(currentString, "[", Len(currentString)) =
            Count(currentString, "]", Len(currentString))

\* the traversal of the second generation ended: 45 bracket pairs, all closed
C17_Witness ==
  /\ pc = "done"
  /\ cfg.iterations = 2
  /\ stack = << >>
  /\ restored # Null
  /\ Count(currentString, "[", Len(currentString)) = 45

----------------------------------------------------------------------------
(* C18: in every state, for every string (balanced or not), the live length  *)
(* is the initial length x 0.7^k and the live radius the initial radius x    *)
(* 0.7^k, k the number of entries on the stack; both are positive, and only  *)
(* '[' and ']' change them.                                                  *)

\* x * 0.7^k, for x a multiple of 10^k
Scaled(x, k) == (x \div 10^k) * 7^k

C18_LengthTracksStack ==
  /\ [](pc \in {"interpret", "done"} =>
         /\ turtle.length = Scaled(InitLength, Len(stack))
         /\ turtle.radius = Scaled(InitRadius, Len(stack))
         /\ turtle.length > 0
         /\ turtle.radius > 0)
  /\ [][(turtle'.length # turtle.length \/ turtle'.radius # turtle.radius)
          => Handles("[") \/ Handles("]")]_vars

\* two snapshots on the stack after an unmatched ']': 0.7^2 of the initial values
C18_Witness ==
  /\ currentString = "][[F"
  /\ pc = "done"
  /\ Len(stack) = 2
  /\ turtle.length = 392000000
  /\ turtle.radius = 980000000

----------------------------------------------------------------------------
(* C19: across a balanced '[' ... ']' whose stack entry is intact, depth     *)
(* after the ']' is exactly 0.2 lower than depth right before the '[',       *)
(* whatever '+', '-' and nested brackets lie inside; after a run of balanced *)
(* groups depth is lower by 0.2 per top-level group.                         *)

\* how many brackets are open before character n of s
Level(s, n) == Count(s, "[", n - 1) - Count(s, "]", n - 1)

\* every ']' of s has its '[' and every '[' its ']'
Balanced(s) ==
  /\ \A n \in 1..Len(s) : CharAt(s, n) = "]" => Level(s, n) > 0
  /\ Level(s, Len(s) + 1) = 0

\* the top-level groups of a balanced s: the ']' that close at level 1
TopLevelGroups(s) ==
  Cardinality({n \in 1..Len(s) : CharAt(s, n) = "]" /\ Level(s, n) = 1})

\* the turns of s outside every bracket
TopLevelTurns(s) ==
  Cardinality({n \in 1..Len(s) : CharAt(s, n) \in {"+", "-"} /\ Level(s, n) = 0})

C19_DepthDrift ==
  /\ [](pc = "done" /\ Balanced(currentString) =>
         turtle.depth = TopLevelTurns(currentString)
                          - 2 * TopLevelGroups(currentString))
  /\ [][Handles("[") => stack'[Len(stack')].depth = turtle.depth]_vars
  /\ [][\A n \in DOMAIN stack \cap DOMAIN stack' :
          stack'[n].depth = stack[n].depth]_vars
  /\ [][Handles("]") /\ stack # << >> =>
          turtle'.depth = stack[Len(stack)].depth - 2]_vars

\* two groups in a row: depth is -0.4 at the end
C19_Witness ==
  /\ currentString = "[][]"
  /\ pc = "done"
  /\ turtle.depth = -4

====
